---------------------------- MODULE Spec2Model ----------------------------
(***************************************************************************)
(* A model of zappo_bot (src/app.py): the TwitterBot class, run_bot and    *)
(* the scheduler loop of main.                                             *)
(*                                                                         *)
(* A Python str is a sequence of one-character strings.  The pure string   *)
(* functions (clean_text, extract_topics) are operators over such          *)
(* sequences, computed the way re and str compute them.                    *)
(***************************************************************************)
EXTENDS Naturals, Sequences, FiniteSets

VARIABLES
    pc,            \* position of the process: main, run_bot, tweet_about_trend
    response,      \* what requests.get produced in the last get_trending_news
    fetch_ret,     \* outcome of the last get_trending_news call
    news_items,    \* tweet_about_trend: news_items
    news_item,     \* tweet_about_trend: news_item (random.choice)
    llm_out,       \* what chain.invoke produced in the last generate_tweet
    tweet,         \* tweet_about_trend: tweet (generate_tweet's return value)
    posted,        \* texts given to twitter_client.create_tweet in this invocation
    fetchCalls,    \* get_trending_news calls in this invocation
    genCalls,      \* chain.invoke calls in this invocation
    postCalls,     \* create_tweet calls in this invocation
    initFailed,    \* TwitterBot() raised in this invocation
    everFailed,    \* some invocation ended in run_bot's except clause
    lastResult,    \* how the current or last invocation ended
    elapsed,       \* scheduler: minutes slept since the job was last scheduled
    h_fn,          \* the function a single-function specification applies
    h_args,        \* its arguments
    h_rets         \* its successive results

vars == <<pc, response, fetch_ret, news_items, news_item, llm_out, tweet,
          posted, fetchCalls, genCalls, postCalls, initFailed, everFailed,
          lastResult, elapsed, h_fn, h_args, h_rets>>

pipeVars == <<pc, response, fetch_ret, news_items, news_item, llm_out, tweet,
              posted, fetchCalls, genCalls, postCalls, initFailed, everFailed,
              lastResult, elapsed>>

-----------------------------------------------------------------------------
(* Characters and character classes of re and str.                         *)

BS == "\\"
DQ == "\""
SQ == "'"
LF == "\n"
TAB == "\t"
SP == " "

Upper == {"A","B","C","D","E","F","G","H","I","J","K","L","M",
          "N","O","P","Q","R","S","T","U","V","W","X","Y","Z"}

Lower == {"a","b","c","d","e","f","g","h","i","j","k","l","m",
          "n","o","p","q","r","s","t","u","v","w","x","y","z"}

Digits == {"0","1","2","3","4","5","6","7","8","9"}

\* [a-zA-Z]
Letter == Upper \cup Lower

\* \w: the characters between which \b finds no boundary
WordChar == Letter \cup Digits \cup {"_"}

\* \s, and the characters str.strip() removes
Space == {SP, TAB, LF, "\r", "\f"}

-----------------------------------------------------------------------------
(* str operations.                                                         *)

\* s[i:] starts with p (i is 1-based)
StartsWithAt(s, p, i) ==
    /\ i + Len(p) - 1 <= Len(s)
    /\ SubSeq(s, i, i + Len(p) - 1) = p

\* s[i-1:] in Python terms
From(s, i) == SubSeq(s, i, Len(s))

\* The least element of a non-empty set of numbers
Min(S) == CHOOSE m \in S : \A n \in S : m <= n

\* The greatest element of a non-empty set of numbers
Max(S) == CHOOSE m \in S : \A n \in S : m >= n

\* str.find(p) from position i: the first index >= i where p occurs, 0 if none
Find(s, p, i) ==
    LET hits == {k \in i..Len(s) : StartsWithAt(s, p, k)} IN
    IF hits = {} THEN 0 ELSE Min(hits)

\* str.replace(p, r): every non-overlapping occurrence, leftmost first
RECURSIVE Replace(_, _, _)
Replace(s, p, r) ==
    LET k == Find(s, p, 1) IN
    IF k = 0 THEN s
    ELSE SubSeq(s, 1, k - 1) \o r \o Replace(From(s, k + Len(p)), p, r)

\* str.split(p)[0]: what precedes the first occurrence of p, s if there is none
SplitFirst(s, p) ==
    LET k == Find(s, p, 1) IN
    IF k = 0 THEN s ELSE SubSeq(s, 1, k - 1)

\* str.lstrip(chars): s from its first character that is not in cs
LStrip(s, cs) ==
    LET keep == {k \in 1..Len(s) : s[k] \notin cs} IN
    IF keep = {} THEN <<>> ELSE From(s, Min(keep))

\* str.rstrip(chars): s up to its last character that is not in cs
RStrip(s, cs) ==
    LET keep == {k \in 1..Len(s) : s[k] \notin cs} IN
    IF keep = {} THEN <<>> ELSE SubSeq(s, 1, Max(keep))

\* str.strip(chars): every leading and trailing character of cs
Strip(s, cs) == RStrip(LStrip(s, cs), cs)

-----------------------------------------------------------------------------
(* TwitterBot.clean_text                                                   *)

STR_content == <<"c","o","n","t","e","n","t","=">>

STR_additional_kwargs ==
    <<"a","d","d","i","t","i","o","n","a","l","_","k","w","a","r","g","s","=">>

STR_response_metadata ==
    <<"r","e","s","p","o","n","s","e","_","m","e","t","a","d","a","t","a","=">>

\* re.sub(r'^content=[\'"]*', '', text)
SubContent(text) ==
    IF StartsWithAt(text, STR_content, 1)
    THEN LStrip(From(text, Len(STR_content) + 1), {SQ, DQ})
    ELSE text

\* The end of the match of \{.*?\} that starts at the { at i, 0 if there is
\* none: the first } after i, with no line break before it ('.' matches none)
BraceEnd(s, i) ==
    LET stops == {j \in (i + 1)..Len(s) : s[j] \in {"}", LF}} IN
    IF stops # {} /\ s[Min(stops)] = "}" THEN Min(stops) ELSE 0

\* re.sub(r'\{.*?\}', '', text): the leftmost match is removed, and the
\* search goes on after it
RECURSIVE SubBraces(_)
SubBraces(s) ==
    LET opens == {i \in 1..Len(s) : s[i] = "{" /\ BraceEnd(s, i) # 0} IN
    IF opens = {} THEN s
    ELSE SubSeq(s, 1, Min(opens) - 1) \o SubBraces(From(s, BraceEnd(s, Min(opens)) + 1))

StripQuotesThenSpace(text) == Strip(Strip(text, {DQ, SQ}), Space)

clean_text(text) ==
    LET t1 == SubContent(text)
        t2 == SplitFirst(t1, STR_additional_kwargs)
        t3 == SplitFirst(t2, STR_response_metadata)
        t4 == Replace(Replace(t3, <<BS, "n">>, <<SP>>), <<BS, "t">>, <<SP>>)
        t5 == Replace(Replace(t4, <<BS, SQ>>, <<SQ>>), <<BS, DQ>>, <<DQ>>)
        t6 == Replace(t5, <<BS>>, <<>>)
        t7 == StripQuotesThenSpace(t6)
    IN  SubBraces(t7)

-----------------------------------------------------------------------------
(* TwitterBot.extract_topics                                               *)

STR_GeneralNews == <<"G","e","n","e","r","a","l","N","e","w","s">>

\* (?:says|announces|confirms|reports), in the order re tries them
NewsVerbs ==
    << <<"s","a","y","s">>,
       <<"a","n","n","o","u","n","c","e","s">>,
       <<"c","o","n","f","i","r","m","s">>,
       <<"r","e","p","o","r","t","s">> >>

\* (?:in|at|by)
Prepositions == << <<"i","n">>, <<"a","t">>, <<"b","y">> >>

\* The last index of the run of characters of cs that starts at j (j - 1 if
\* s[j] is not in cs): what a greedy cs* consumes
RECURSIVE RunEnd(_, _, _)
RunEnd(s, cs, j) ==
    IF j <= Len(s) /\ s[j] \in cs THEN RunEnd(s, cs, j + 1) ELSE j - 1

\* [A-Z][a-zA-Z]+ at i: the end of its greedy match, 0 if it does not match
CapEnd(s, i) ==
    IF i <= Len(s) /\ s[i] \in Upper /\ RunEnd(s, Letter, i + 1) >= i + 1
    THEN RunEnd(s, Letter, i + 1)
    ELSE 0

\* \b between s[i-1] and s[i]
Boundary(s, i) ==
    LET before == i > 1 /\ i - 1 <= Len(s) /\ s[i - 1] \in WordChar
        after  == i >= 1 /\ i <= Len(s) /\ s[i] \in WordChar
    IN  before # after

\* \b[A-Z][a-zA-Z]+\b at i: the end of the match, 0 if none.  Giving back
\* letters of the greedy run never helps: a letter would follow, and \b fails.
MatchCapWord(s, i) ==
    LET e == CapEnd(s, i) IN
    IF e # 0 /\ Boundary(s, i) /\ Boundary(s, e + 1) THEN e ELSE 0

\* re.findall(r'\b[A-Z][a-zA-Z]+\b', s) from position i, as a set
RECURSIVE FindAllCapWords(_, _)
FindAllCapWords(s, i) ==
    IF i > Len(s) THEN {}
    ELSE LET e == MatchCapWord(s, i) IN
         IF e # 0 THEN {SubSeq(s, i, e)} \cup FindAllCapWords(s, e + 1)
         ELSE FindAllCapWords(s, i + 1)

\* (?:alt1|alt2|...)\s+([A-Z][a-zA-Z]+) at i, trying the alternatives from
\* the k-th on: <<start, end>> of the group, <<0, 0>> if no match
RECURSIVE MatchAfter(_, _, _, _)
MatchAfter(s, alts, i, k) ==
    IF k > Len(alts) THEN <<0, 0>>
    ELSE LET w == i + Len(alts[k])
             g == RunEnd(s, Space, w) + 1
         IN  IF StartsWithAt(s, alts[k], i) /\ g > w /\ CapEnd(s, g) # 0
             THEN <<g, CapEnd(s, g)>>
             ELSE MatchAfter(s, alts, i, k + 1)

\* re.findall of such a pattern from position i: the groups, as a set
RECURSIVE FindAllAfter(_, _, _)
FindAllAfter(s, alts, i) ==
    IF i > Len(s) THEN {}
    ELSE LET m == MatchAfter(s, alts, i, 1) IN
         IF m[1] # 0 THEN {SubSeq(s, m[1], m[2])} \cup FindAllAfter(s, alts, m[2] + 1)
         ELSE FindAllAfter(s, alts, i + 1)

\* full_text = f"{title} {description}"
FullText(title, description) == title \o <<SP>> \o description

\* topics: the set the three findall calls fill
Topics(title, description) ==
    LET full_text == FullText(title, description) IN
    FindAllCapWords(full_text, 1)
        \cup FindAllAfter(full_text, NewsVerbs, 1)
        \cup FindAllAfter(full_text, Prepositions, 1)

\* if len(topic) > 2
KeepTopic_AnyLength(topic) == TRUE

KeepTopic(topic) == Len(topic) > 2

\* sep.join(list)
RECURSIVE Join(_, _)
Join(list, sep) ==
    IF list = <<>> THEN <<>>
    ELSE IF Len(list) = 1 THEN list[1]
    ELSE list[1] \o sep \o Join(Tail(list), sep)

\* The orders in which iterating a set may yield its elements
Orders(S) ==
    {f \in [1..Cardinality(S) -> S] : \A i, j \in 1..Cardinality(S) : f[i] = f[j] => i = j}

\* The hashtags list: one '#'-prefixed entry per kept topic, in the order the
\* iteration of the set topics yields them (any order)
HashtagLists(title, description) ==
    LET kept == {t \in Topics(title, description) : KeepTopic(t)} IN
    {[i \in 1..Cardinality(kept) |-> <<"#">> \o f[i]] : f \in Orders(kept)}

\* What extract_topics returns when the hashtags list is hashtags
TopicsString(hashtags) ==
    IF hashtags # <<>> THEN Join(hashtags, <<SP>>) ELSE STR_GeneralNews

\* The values extract_topics(title, description) can return
extract_topics(title, description) ==
    {TopicsString(h) : h \in HashtagLists(title, description)}

-----------------------------------------------------------------------------
(* TwitterBot.get_trending_news                                            *)

\* A JSON value read with dict.get(key, ''): the key is missing, holds null,
\* or holds a string
Missing == [tag |-> "missing", val |-> <<>>]

Null == [tag |-> "null", val |-> <<>>]

Str(s) == [tag |-> "str", val |-> s]

\* article.get(key, ''): '' when the key is missing, None when it holds null
GetOrEmpty(field) == IF field.tag = "missing" THEN Str(<<>>) ELSE field

\* Python truth of what article.get returned: None and '' are false
Truthy(v) == v.tag = "str" /\ v.val # <<>>

\* if title and description
KeepArticle_Either(title, description) == Truthy(title) \/ Truthy(description)

KeepArticle(title, description) == Truthy(title) /\ Truthy(description)

\* The news_context dicts one article can become (topics in any set order)
NewsContexts(article) ==
    LET title == GetOrEmpty(article.title)
        description == GetOrEmpty(article.description)
    IN  {[title |-> title.val, description |-> description.val, topics |-> t] :
            t \in extract_topics(title.val, description.val)}

\* An element of articles that is no dict: article.get raises there
SomeNotDict(articles) == \E i \in 1..Len(articles) : ~articles[i].is_dict

\* The for loop over articles, all of them dicts: the lists news_items can
\* end as
RECURSIVE NewsItemLists(_)
NewsItemLists(articles) ==
    IF articles = <<>> THEN {<<>>}
    ELSE LET a == Head(articles)
             rest == NewsItemLists(Tail(articles))
         IN  IF KeepArticle(GetOrEmpty(a.title), GetOrEmpty(a.description))
             THEN {<<c>> \o r : c \in NewsContexts(a), r \in rest}
             ELSE rest

\* news_items[:limit]
Slice(list, limit) == SubSeq(list, 1, IF limit < Len(list) THEN limit ELSE Len(list))

Raised == [raised |-> TRUE, value |-> <<>>]

Returned(v) == [raised |-> FALSE, value |-> v]

\* The try block: requests.get, the status test, response.json(), the loop
FetchBody(resp, limit) ==
    IF resp.kind = "raise" THEN {Raised}
    ELSE IF resp.status # 200 THEN {Returned(<<>>)}
    ELSE IF resp.json # "object" THEN {Raised}
    ELSE IF resp.articles.tag = "missing" THEN {Returned(<<>>)}
    ELSE IF resp.articles.tag = "null" THEN {Raised}
    ELSE IF SomeNotDict(resp.articles.val) THEN {Raised}
    ELSE {Returned(Slice(l, limit)) : l \in NewsItemLists(resp.articles.val)}

\* except Exception as e: logger.error(...); return []
FetchExcept_Reraise(outcome) == outcome

FetchExcept(outcome) == Returned(<<>>)

\* The outcomes get_trending_news(limit) can have when requests.get gives resp
get_trending_news(resp, limit) ==
    {IF o.raised THEN FetchExcept(o) ELSE o : o \in FetchBody(resp, limit)}

-----------------------------------------------------------------------------
(* Inputs of the single-function specifications.                           *)

MaxCleanChunks == 3
MaxTitleChunks == 2
MaxDescChunks == 2
MaxArticles == 3
MaxLimit == 2

RECURSIVE Flatten(_)
Flatten(chunks) ==
    IF chunks = <<>> THEN <<>> ELSE Head(chunks) \o Flatten(Tail(chunks))

\* The strings made of at most n chunks
ChunkStrings(chunks, n) ==
    {Flatten(cs) : cs \in UNION {[1..k -> chunks] : k \in 0..n}}

CleanChunks ==
    {STR_content, STR_additional_kwargs, STR_response_metadata,
     <<DQ>>, <<SQ>>, <<BS>>, <<"n">>, <<SP>>, <<LF>>,
     <<"{">>, <<"}">>, <<"a">>, <<"{","a","}">>}

CleanInputs == ChunkStrings(CleanChunks, MaxCleanChunks)

TopicChunks ==
    {<<"i","n">>, <<"s","a","y","s">>, <<SP>>, <<"A","b">>, <<"A","b","c">>,
     <<"M","a","r","s">>, <<"9">>}

TitleInputs == ChunkStrings(TopicChunks, MaxTitleChunks)

DescInputs == ChunkStrings(TopicChunks, MaxDescChunks)

STR_Mars == <<"M","a","r","s">>

STR_inAbc == <<"i","n",SP,"A","b","c">>

Article(title, description) ==
    [is_dict |-> TRUE, title |-> title, description |-> description]

NotADict == [is_dict |-> FALSE, title |-> Missing, description |-> Missing]

ArticleInputs ==
    {Article(Str(STR_Mars), Str(STR_inAbc)),
     Article(Str(STR_inAbc), Str(STR_Mars)),
     Article(Missing, Str(STR_Mars)),
     Article(Str(STR_Mars), Null),
     Article(Str(<<>>), Str(STR_inAbc)),
     NotADict}

NoArticles == [tag |-> "missing", val |-> <<>>]

HttpResponse(status, json, articles) ==
    [kind |-> "http", status |-> status, json |-> json, articles |-> articles]

RequestRaises == [kind |-> "raise", status |-> 0, json |-> "none", articles |-> NoArticles]

\* What requests.get can produce: an exception, a response whose status is
\* not 200, a 200 whose body is no JSON or no JSON object, a 200 whose object
\* has no articles key, a null one, or a list of n articles
ResponseInputs(n) ==
    {RequestRaises}
        \cup {HttpResponse(st, "none", NoArticles) : st \in {404, 500}}
        \cup {HttpResponse(200, j, NoArticles) : j \in {"invalid", "array", "object"}}
        \cup {HttpResponse(200, "object", [tag |-> "null", val |-> <<>>])}
        \cup {HttpResponse(200, "object", [tag |-> "list", val |-> l]) :
                l \in UNION {[1..k -> ArticleInputs] : k \in 0..n}}

-----------------------------------------------------------------------------
(* The single-function specifications: Init draws the arguments, the one   *)
(* action applies the function.                                            *)

NoItem == [title |-> <<>>, description |-> <<>>, topics |-> <<>>]

NoResponse == [kind |-> "none", has_content |-> FALSE, content |-> <<>>, str |-> <<>>]

PipeOff ==
    /\ pc = "off"
    /\ response = RequestRaises
    /\ fetch_ret = Returned(<<>>)
    /\ news_items = <<>>
    /\ news_item = NoItem
    /\ llm_out = NoResponse
    /\ tweet = <<>>
    /\ posted = <<>>
    /\ fetchCalls = 0
    /\ genCalls = 0
    /\ postCalls = 0
    /\ initFailed = FALSE
    /\ everFailed = FALSE
    /\ lastResult = "none"
    /\ elapsed = 0

InitClean ==
    /\ PipeOff
    /\ h_fn = "clean_text"
    /\ h_args \in {<<text>> : text \in CleanInputs}
    /\ h_rets = <<>>

\* clean_text applied to the argument, then to its own result (what
\* generate_tweet and then post_tweet do to one text)
ApplyCleanText ==
    /\ h_fn = "clean_text"
    /\ Len(h_rets) < 2
    /\ h_rets' = Append(h_rets,
                        clean_text(IF h_rets = <<>> THEN h_args[1] ELSE h_rets[Len(h_rets)]))
    /\ UNCHANGED <<pipeVars, h_fn, h_args>>

NextClean == ApplyCleanText

SpecClean == InitClean /\ [][NextClean]_vars

InitTopics ==
    /\ PipeOff
    /\ h_fn = "extract_topics"
    /\ h_args \in {<<title, description>> : title \in TitleInputs, description \in DescInputs}
    /\ h_rets = <<>>

ApplyExtractTopics ==
    /\ h_fn = "extract_topics"
    /\ h_rets = <<>>
    /\ \E r \in extract_topics(h_args[1], h_args[2]) : h_rets' = <<r>>
    /\ UNCHANGED <<pipeVars, h_fn, h_args>>

NextTopics == ApplyExtractTopics

SpecTopics == InitTopics /\ [][NextTopics]_vars

InitFetch ==
    /\ PipeOff
    /\ h_fn = "get_trending_news"
    /\ h_args \in {<<resp, limit>> : resp \in ResponseInputs(MaxArticles), limit \in 0..MaxLimit}
    /\ h_rets = <<>>

ApplyGetTrendingNews ==
    /\ h_fn = "get_trending_news"
    /\ h_rets = <<>>
    /\ \E r \in get_trending_news(h_args[1], h_args[2]) : h_rets' = <<r>>
    /\ UNCHANGED <<pipeVars, h_fn, h_args>>

NextFetch == ApplyGetTrendingNews

SpecFetch == InitFetch /\ [][NextFetch]_vars

-----------------------------------------------------------------------------
(* The process: main, run_bot, TwitterBot(), tweet_about_trend,            *)
(* generate_tweet, post_tweet.                                             *)

\* schedule.every(40).minutes
Every == 40

\* def get_trending_news(self, limit: int = 5)
DefaultLimit == 5

\* self.get_trending_news(limit=5)
TrendLimit == 5

ThreeGood ==
    <<Article(Str(STR_Mars), Str(STR_inAbc)),
      Article(Str(STR_inAbc), Str(STR_Mars)),
      Article(Str(STR_Mars), Str(STR_Mars))>>

OneBadOneGood ==
    <<Article(Missing, Str(STR_Mars)), Article(Str(STR_Mars), Str(STR_inAbc))>>

\* What requests.get produces in the process
PipeResponses ==
    {RequestRaises,
     HttpResponse(500, "none", NoArticles),
     HttpResponse(200, "object", [tag |-> "list", val |-> <<>>]),
     HttpResponse(200, "object", [tag |-> "list", val |-> ThreeGood]),
     HttpResponse(200, "object", [tag |-> "list", val |-> OneBadOneGood])}

\* c * n
Repeat(c, n) == [i \in 1..n |-> c]

Message(content) ==
    [kind |-> "message", has_content |-> TRUE, content |-> content, str |-> <<>>]

LlmRaises == [kind |-> "raise", has_content |-> FALSE, content |-> <<>>, str |-> <<>>]

\* What chain.invoke produces: an exception; a message object whose content
\* is plain text, text after a brace-delimited fragment, or 281 characters;
\* a dict with a content key; a value with neither, whose str() is the
\* envelope content='Ab' additional_kwargs={}
LlmOutcomes ==
    {LlmRaises,
     Message(<<"A","b">>),
     Message(<<"{","a","}",SP,"A","b">>),
     Message(Repeat("a", 281)),
     [kind |-> "dict", has_content |-> TRUE, content |-> <<"A","b">>, str |-> <<>>],
     [kind |-> "other", has_content |-> FALSE, content |-> <<>>,
      str |-> STR_content \o <<SQ,"A","b",SQ,SP>> \o STR_additional_kwargs \o <<"{","}">>]}

\* generate_tweet: the content taken from the response
ResponseContent(r) ==
    IF r.kind = "message" THEN r.content
    ELSE IF r.kind = "dict" THEN (IF r.has_content THEN r.content ELSE r.str)
    ELSE r.str

\* _init_apis: except Exception ... raise
InitApisRaises(outcome) == outcome = "apis_raise"

\* _init_llm: except Exception ... raise
InitLlmRaises_Swallowed(outcome) == FALSE

InitLlmRaises(outcome) == outcome = "llm_raise"

\* TwitterBot.__init__: _init_apis, then _init_llm
TwitterBotRaises(outcome) == InitApisRaises(outcome) \/ InitLlmRaises(outcome)

\* run_bot: where control is after except Exception has logged the error
RunBotExcept_Reraise == "exited"

RunBotExcept == "rb_return"

\* An exception reaches run_bot's except clause
Caught ==
    /\ pc' = RunBotExcept
    /\ lastResult' = "failed"
    /\ everFailed' = TRUE

\* if not news_items
NoNews_Never(items) == FALSE

NoNews(items) == items = <<>>

Init ==
    /\ pc = "main"
    /\ response = RequestRaises
    /\ fetch_ret = Returned(<<>>)
    /\ news_items = <<>>
    /\ news_item = NoItem
    /\ llm_out = NoResponse
    /\ tweet = <<>>
    /\ posted = <<>>
    /\ fetchCalls = 0
    /\ genCalls = 0
    /\ postCalls = 0
    /\ initFailed = FALSE
    /\ everFailed = FALSE
    /\ lastResult = "none"
    /\ elapsed = 0
    /\ h_fn = "none"
    /\ h_args = <<>>
    /\ h_rets = <<>>

\* main: schedule.every(40).minutes.do(run_bot); run_bot()
MainStart ==
    /\ pc = "main"
    /\ pc' = "run_bot"
    /\ lastResult' = "running"
    /\ UNCHANGED <<response, fetch_ret, news_items, news_item, llm_out, tweet, posted,
                   fetchCalls, genCalls, postCalls, initFailed, everFailed, elapsed,
                   h_fn, h_args, h_rets>>

\* run_bot: bot = TwitterBot()
RunBotInit ==
    /\ pc = "run_bot"
    /\ \E outcome \in {"ok", "apis_raise", "llm_raise"} :
        /\ initFailed' = (outcome # "ok")
        /\ IF TwitterBotRaises(outcome)
           THEN Caught
           ELSE pc' = "rb_fetch" /\ UNCHANGED <<lastResult, everFailed>>
    /\ UNCHANGED <<response, fetch_ret, news_items, news_item, llm_out, tweet, posted,
                   fetchCalls, genCalls, postCalls, elapsed, h_fn, h_args, h_rets>>

\* run_bot: news_items = bot.get_trending_news(), and the loop printing them
RunBotFetch ==
    /\ pc = "rb_fetch"
    /\ \E resp \in PipeResponses : \E ret \in get_trending_news(resp, DefaultLimit) :
        /\ response' = resp
        /\ fetch_ret' = ret
        /\ fetchCalls' = fetchCalls + 1
        /\ IF ret.raised
           THEN Caught
           ELSE pc' = "tat_fetch" /\ UNCHANGED <<lastResult, everFailed>>
    /\ UNCHANGED <<news_items, news_item, llm_out, tweet, posted, genCalls, postCalls,
                   initFailed, elapsed, h_fn, h_args, h_rets>>

\* tweet_about_trend: news_items = self.get_trending_news(limit=5) and the
\* return when there are none (run_bot then returns too)
TatFetch ==
    /\ pc = "tat_fetch"
    /\ \E resp \in PipeResponses : \E ret \in get_trending_news(resp, TrendLimit) :
        /\ response' = resp
        /\ fetch_ret' = ret
        /\ fetchCalls' = fetchCalls + 1
        /\ news_items' = ret.value
        /\ IF ret.raised
           THEN Caught
           ELSE IF NoNews(ret.value)
           THEN pc' = "rb_return" /\ lastResult' = "ok" /\ UNCHANGED everFailed
           ELSE pc' = "tat_select" /\ UNCHANGED <<lastResult, everFailed>>
    /\ UNCHANGED <<news_item, llm_out, tweet, posted, genCalls, postCalls,
                   initFailed, elapsed, h_fn, h_args, h_rets>>

\* tweet_about_trend: news_item = random.choice(news_items), which raises
\* IndexError on an empty list
TatSelect ==
    /\ pc = "tat_select"
    /\ \E i \in 1..(IF news_items = <<>> THEN 1 ELSE Len(news_items)) :
        IF news_items = <<>>
        THEN Caught /\ UNCHANGED news_item
        ELSE /\ news_item' = news_items[i]
             /\ pc' = "tat_generate"
             /\ UNCHANGED <<lastResult, everFailed>>
    /\ UNCHANGED <<response, fetch_ret, news_items, llm_out, tweet, posted, fetchCalls,
                   genCalls, postCalls, initFailed, elapsed, h_fn, h_args, h_rets>>

\* tweet_about_trend: tweet = self.generate_tweet(news_item); an exception of
\* chain.invoke is logged and raised again, up to run_bot
TatGenerate ==
    /\ pc = "tat_generate"
    /\ \E out \in LlmOutcomes :
        /\ llm_out' = out
        /\ genCalls' = genCalls + 1
        /\ IF out.kind = "raise"
           THEN Caught /\ UNCHANGED tweet
           ELSE /\ tweet' = clean_text(ResponseContent(out))
                /\ pc' = "tat_post"
                /\ UNCHANGED <<lastResult, everFailed>>
    /\ UNCHANGED <<response, fetch_ret, news_items, news_item, posted, fetchCalls,
                   postCalls, initFailed, elapsed, h_fn, h_args, h_rets>>

\* post_tweet: clean_tweet = self.clean_text(tweet_text)
PostText(tweet_text) == clean_text(tweet_text)

TatPost_Twice ==
    /\ pc = "tat_post"
    /\ \E outcome \in {"ok", "raise"} :
        /\ posted' = posted \o <<PostText(tweet), PostText(tweet)>>
        /\ postCalls' = postCalls + 2
        /\ IF outcome = "raise"
           THEN Caught
           ELSE pc' = "rb_return" /\ lastResult' = "ok" /\ UNCHANGED everFailed
    /\ UNCHANGED <<response, fetch_ret, news_items, news_item, llm_out, tweet, fetchCalls,
                   genCalls, initFailed, elapsed, h_fn, h_args, h_rets>>

\* tweet_about_trend: self.post_tweet(tweet), whose create_tweet call returns
\* or raises; then run_bot returns
TatPost ==
    /\ pc = "tat_post"
    /\ \E outcome \in {"ok", "raise"} :
        /\ posted' = Append(posted, PostText(tweet))
        /\ postCalls' = postCalls + 1
        /\ IF outcome = "raise"
           THEN Caught
           ELSE pc' = "rb_return" /\ lastResult' = "ok" /\ UNCHANGED everFailed
    /\ UNCHANGED <<response, fetch_ret, news_items, news_item, llm_out, tweet, fetchCalls,
                   genCalls, initFailed, elapsed, h_fn, h_args, h_rets>>

\* run_bot returns to main: its bot and locals are gone, and the job's next
\* run is Every minutes away (the calls themselves take no scheduler time)
RunBotReturn ==
    /\ pc = "rb_return"
    /\ pc' = "loop"
    /\ response' = RequestRaises
    /\ fetch_ret' = Returned(<<>>)
    /\ news_items' = <<>>
    /\ news_item' = NoItem
    /\ llm_out' = NoResponse
    /\ tweet' = <<>>
    /\ posted' = <<>>
    /\ fetchCalls' = 0
    /\ genCalls' = 0
    /\ postCalls' = 0
    /\ initFailed' = FALSE
    /\ elapsed' = 0
    /\ UNCHANGED <<everFailed, lastResult, h_fn, h_args, h_rets>>

\* main: while True: schedule.run_pending() finds nothing due; time.sleep(1)
LoopSleep ==
    /\ pc = "loop"
    /\ elapsed < Every
    /\ elapsed' = elapsed + 1
    /\ UNCHANGED <<pc, response, fetch_ret, news_items, news_item, llm_out, tweet, posted,
                   fetchCalls, genCalls, postCalls, initFailed, everFailed, lastResult,
                   h_fn, h_args, h_rets>>

\* main: schedule.run_pending() finds the job due and calls run_bot
LoopRunPending ==
    /\ pc = "loop"
    /\ elapsed = Every
    /\ pc' = "run_bot"
    /\ lastResult' = "running"
    /\ UNCHANGED <<response, fetch_ret, news_items, news_item, llm_out, tweet, posted,
                   fetchCalls, genCalls, postCalls, initFailed, everFailed, elapsed,
                   h_fn, h_args, h_rets>>

Next ==
    \/ MainStart
    \/ RunBotInit
    \/ RunBotFetch
    \/ TatFetch
    \/ TatSelect
    \/ TatGenerate
    \/ TatPost
    \/ RunBotReturn
    \/ LoopSleep
    \/ LoopRunPending

Spec == Init /\ [][Next]_vars

\* The scheduler loop keeps running: run_bot returns to it once its except
\* clause or its last statement is reached, time.sleep(1) returns, and
\* run_pending runs the job that is due
FairSpec ==
    /\ Spec
    /\ WF_vars(RunBotReturn)
    /\ WF_vars(LoopSleep)
    /\ WF_vars(LoopRunPending)

-----------------------------------------------------------------------------
(* The claims.                                                             *)

\* C1: every text handed to create_tweet has at most 280 characters (a
\* longer one having been cut to 277 characters and "...").
PostedWithinLimit ==
    \A i \in 1..Len(posted) : Len(posted[i]) <= 280

\* C2: an exception inside an invocation of run_bot never ends the process,
\* and after an invocation that failed the next invocation is started.
SchedulerSurvivesFailures ==
    /\ [](pc # "exited")
    /\ (pc = "rb_return" /\ lastResult = "failed") ~> (pc = "run_bot")

\* C2 witness: an invocation has posted and returned normally after an
\* earlier invocation had failed.
SucceededAfterFailure ==
    pc = "rb_return" /\ lastResult = "ok" /\ everFailed /\ postCalls = 1

\* C3: clean_text(clean_text(x)) = clean_text(x).
CleanTextIdempotent ==
    (h_fn = "clean_text" /\ Len(h_rets) = 2) => h_rets[2] = h_rets[1]

FailingResponse(resp) ==
    resp.kind = "raise" \/ resp.status # 200 \/ resp.json = "invalid"

\* C4: get_trending_news never raises, and returns [] when the request
\* raises, the status is not 200 or the body is no JSON.
FetchNeverRaises ==
    (h_fn = "get_trending_news" /\ h_rets # <<>>) =>
        /\ ~h_rets[1].raised
        /\ FailingResponse(h_args[1]) => h_rets[1].value = <<>>

\* C4 witness: get_trending_news has returned for a response of status 500.
FetchedStatus500 ==
    /\ h_fn = "get_trending_news"
    /\ h_rets # <<>>
    /\ h_args[1].kind = "http"
    /\ h_args[1].status = 500

\* C5 as stated: once TwitterBot() has failed, the process has exited.
StartupFailureExits ==
    initFailed => pc = "exited"

\* C5 as amended: a failure of TwitterBot() ends the invocation it occurs in
\* before any fetch, generation or posting call, in run_bot's except clause,
\* from where run_bot returns to the scheduler loop: the process lives on.
StartupFailureEndsInvocationOnly ==
    initFailed =>
        /\ pc = "rb_return"
        /\ lastResult = "failed"
        /\ fetchCalls = 0
        /\ genCalls = 0
        /\ postCalls = 0

\* C5 witness: TwitterBot() has failed in the current invocation.
StartupFailed ==
    initFailed /\ lastResult = "failed"

\* C6: no invocation calls create_tweet more than once, and one whose fetch
\* returned items and that ended normally selected one of them, called
\* chain.invoke once and create_tweet once.
PostsOncePerInvocation ==
    /\ postCalls <= 1
    /\ (pc = "rb_return" /\ lastResult = "ok" /\ news_items # <<>>) =>
        /\ \E i \in 1..Len(news_items) : news_item = news_items[i]
        /\ genCalls = 1
        /\ postCalls = 1
        /\ Len(posted) = 1

\* C6 witness: an invocation whose fetch returned 3 items ended normally.
PostedOneOfThree ==
    pc = "rb_return" /\ lastResult = "ok" /\ Len(news_items) = 3 /\ postCalls = 1

\* C7: the text given to create_tweet is the string generate_tweet returned,
\* when that string is within the length limit.
PostedIsGenerated ==
    (postCalls >= 1 /\ Len(tweet) <= 280) => posted[1] = tweet

\* C8: every item get_trending_news(limit) returns has a non-empty title and
\* a non-empty description, taken from an article of the response whose
\* title and description are both non-empty strings, and there are at most
\* limit items.
FetchedItemsWellFormed ==
    (h_fn = "get_trending_news" /\ h_rets # <<>>) =>
        LET items == h_rets[1].value
            articles == h_args[1].articles.val
        IN  /\ Len(items) <= h_args[2]
            /\ \A k \in 1..Len(items) :
                /\ items[k].title # <<>>
                /\ items[k].description # <<>>
                /\ \E a \in 1..Len(articles) :
                    /\ articles[a].title = Str(items[k].title)
                    /\ articles[a].description = Str(items[k].description)

\* C8 witness: a response listing an article without a title or description
\* among others, of which some item was returned.
FetchedAmongMalformed ==
    /\ h_fn = "get_trending_news"
    /\ h_rets # <<>>
    /\ h_rets[1].value # <<>>
    /\ \E a \in 1..Len(h_args[1].articles.val) :
        LET art == h_args[1].articles.val[a] IN
        art.is_dict /\ (art.title.val = <<>> \/ art.description.val = <<>>)

\* str.split(c)
RECURSIVE SplitOn(_, _)
SplitOn(s, c) ==
    LET at == {k \in 1..Len(s) : s[k] = c} IN
    IF at = {} THEN <<s>>
    ELSE <<SubSeq(s, 1, Min(at) - 1)>> \o SplitOn(From(s, Min(at) + 1), c)

\* The capitalized words of a text: an upper-case letter that starts a word,
\* with the letters that follow it, at least one
CapitalizedWords(text) ==
    {SubSeq(text, i, j) : <<i, j>> \in
        {<<i, j>> \in (1..Len(text)) \X (1..Len(text)) :
            /\ i < j
            /\ i = 1 \/ text[i - 1] \notin WordChar
            /\ text[i] \in Upper
            /\ \A k \in (i + 1)..j : text[k] \in Letter
            /\ j = Len(text) \/ text[j + 1] \notin Letter}}

PostOnlyAfterFetchAndGenerate ==
    /\ postCalls > 0 =>
        (news_items # <<>> /\ genCalls = 1 /\ llm_out.kind \notin {"none", "raise"})
    /\ (fetchCalls = 2 /\ news_items = <<>>) =>
        (pc = "rb_return" /\ lastResult = "ok" /\ genCalls = 0 /\ postCalls = 0)
    /\ llm_out.kind = "raise" => postCalls = 0

\* C10 witness: the fetch of tweet_about_trend returned no items and the
\* invocation ended.
ReturnedWithoutNews ==
    pc = "rb_return" /\ fetchCalls = 2 /\ news_items = <<>> /\ lastResult = "ok"

=============================================================================
